---- MODULE Spec2Model ----
(***************************************************************************)
(* A model of imcconv.read_mcd (src/imcconv/imcconv.py): the generator     *)
(* that locates the XML footer of an .mcd container, cross-references the  *)
(* acquisition and channel tables, decodes each acquisition's float32      *)
(* records and reshapes them with _xyzc_to_arr into a (y, x, c) raster.    *)
(*                                                                         *)
(* Python values are modelled as follows.                                  *)
(*   bytes / mmap      a sequence of numbers 0..255, offsets 0-based       *)
(*   str of digits     a sequence of digits ("10" is <<1, 0>>)             *)
(*   float32           an integer when the value is integral, NaN, or      *)
(*                     NotIntegral for every other bit pattern             *)
(*   Optional[float]   <<>> for None, <<v>> for the value v                *)
(*   ndarray (n, w)    a sequence of n rows, each a sequence of w values   *)
(*   ndarray (h, w, c) [shape |-> <<h, w, c>>, data |-> row-major values]  *)
(***************************************************************************)
EXTENDS Integers, Sequences, FiniteSets, TLC

VARIABLES
    path,          \* argument: path of the container
    fill_missing,  \* argument: <<>> (None) or <<value>>
    encoding,      \* argument: "utf-16-le" or "utf-8"
    file,          \* the container's bytes
    doc,           \* the XML document the container holds (at, enc, root)
    pc,            \* generator: created, suspended, done, raised, closed
    fh,            \* file handle: "none", "open", "closed"
    mm,            \* memory map:  "none", "open", "closed"
    offset,        \* result of mm.rfind (line 59); -1 until found
    yielded,       \* DataArrays handed to the caller so far
    err,           \* exception that left the generator, or NoErr
    reads,         \* mm.read calls on acquisition data: <<acq index, start, n>>
    arr,           \* the array decoded on the last pull (lines 82-85)
    pulls          \* number of next() calls made by the caller

vars == <<path, fill_missing, encoding, file, doc, pc, fh, mm, offset,
          yielded, err, reads, arr, pulls>>

(***************************************************************************)
(* Bounds of the model.                                                    *)
(***************************************************************************)
MaxX == 1
MaxY == 1
MaxRows == 3
MaxCells == 4

(***************************************************************************)
(* Generic helpers.                                                        *)
(***************************************************************************)
Range(s) == {s[i] : i \in DOMAIN s}

RECURSIVE Concat(_)
Concat(ss) == IF ss = <<>> THEN <<>> ELSE Head(ss) \o Concat(Tail(ss))

RECURSIVE Pow2(_)
Pow2(n) == IF n = 0 THEN 1 ELSE 2 * Pow2(n - 1)

MaxOfSet(S) == CHOOSE m \in S : \A n \in S : n <= m

(***************************************************************************)
(* float32.  NaN and NotIntegral are the two non-integer values.           *)
(***************************************************************************)
NaN == -9000001
NotIntegral == -9000002
None == <<>>

IsNaN(v) == v = NaN

\* np.max over a float column: NaN propagates (numpy's maximum reduction).
MaxOf(col) ==
    IF \E i \in DOMAIN col : IsNaN(col[i]) THEN NaN
    ELSE MaxOfSet(Range(col))

\* float arithmetic used at lines 24 and 40: NaN is absorbing.
FAdd(a, b) == IF IsNaN(a) \/ IsNaN(b) THEN NaN ELSE a + b
FMul(a, b) == IF IsNaN(a) \/ IsNaN(b) THEN NaN ELSE a * b
\* a != b on floats: every comparison with NaN is "not equal".
FNe(a, b) == IsNaN(a) \/ IsNaN(b) \/ a # b

\* struct.pack("<f", v) for NaN and for integral |v| < 2^24.
Log2(v) == CHOOSE e \in 0..23 : Pow2(e) <= v /\ v < Pow2(e + 1)
Pack(v) ==
    IF IsNaN(v) THEN <<0, 0, 192, 127>>
    ELSE IF v = 0 THEN <<0, 0, 0, 0>>
    ELSE LET a == IF v < 0 THEN 0 - v ELSE v
             e == Log2(a)
             m == (a - Pow2(e)) * Pow2(23 - e)
             E == 127 + e
         IN  << m % 256,
                (m \div 256) % 256,
                (E % 2) * 128 + (m \div 65536),
                (IF v < 0 THEN 128 ELSE 0) + (E \div 2) >>

\* struct.unpack("f", b)[0] on a little-endian host: sign, exponent, mantissa.
Unpack(b) ==
    LET sign == b[4] \div 128
        E == (b[4] % 128) * 2 + (b[3] \div 128)
        m == (b[3] % 128) * 65536 + b[2] * 256 + b[1]
        e == E - 127
    IN  IF E = 255 THEN (IF m # 0 THEN NaN ELSE NotIntegral)
        ELSE IF E = 0 THEN (IF m = 0 THEN 0 ELSE NotIntegral)
        ELSE IF e < 0 \/ e > 23 THEN NotIntegral
        ELSE IF (8388608 + m) % Pow2(23 - e) # 0 THEN NotIntegral
        ELSE LET a == (8388608 + m) \div Pow2(23 - e)
             IN  IF sign = 1 THEN 0 - a ELSE a

(***************************************************************************)
(* str.encode and int().                                                   *)
(***************************************************************************)
\* "<MCDPublic" as code points.
MarkerText == <<60, 77, 67, 68, 80, 117, 98, 108, 105, 99>>

\* s.encode(enc) for ASCII text: one byte per code point in utf-8, the code
\* point followed by a zero byte in utf-16-le.
Encode(s, enc) ==
    IF enc = "utf-8" THEN s
    ELSE Concat([i \in DOMAIN s |-> <<s[i], 0>>])

\* int(s) for a string of decimal digits.
RECURSIVE ParseInt(_)
ParseInt(s) ==
    IF s = <<>> THEN 0
    ELSE 10 * ParseInt(SubSeq(s, 1, Len(s) - 1)) + s[Len(s)]

\* str(n) for n >= 0.
RECURSIVE Digits(_)
Digits(n) == IF n < 10 THEN <<n>> ELSE Append(Digits(n \div 10), n % 10)

(***************************************************************************)
(* mmap: rfind, seek + read.                                               *)
(***************************************************************************)
RECURSIVE RFindFrom(_, _, _)
RFindFrom(buf, sub, i) ==
    IF i < 0 THEN -1
    ELSE IF SubSeq(buf, i + 1, i + Len(sub)) = sub THEN i
    ELSE RFindFrom(buf, sub, i - 1)

\* mm.find(sub): the lowest offset at which sub occurs, -1 if none.
RECURSIVE FindFrom(_, _, _)
FindFrom(buf, sub, i) ==
    IF i + Len(sub) > Len(buf) THEN -1
    ELSE IF SubSeq(buf, i + 1, i + Len(sub)) = sub THEN i
    ELSE FindFrom(buf, sub, i + 1)

Find(buf, sub) == FindFrom(buf, sub, 0)

\* mm.rfind(sub): highest offset at which sub occurs, -1 if none.
RFind(buf, sub) == RFindFrom(buf, sub, Len(buf) - Len(sub))

\* mm.seek(pos); mm.read(n): at most n bytes, up to the end of the mapping.
MmRead(buf, pos, n) ==
    LET last == IF pos + n > Len(buf) THEN Len(buf) ELSE pos + n
    IN  SubSeq(buf, pos + 1, last)

(***************************************************************************)
(* Exceptions.  msg holds the values the message interpolates.             *)
(***************************************************************************)
NoErr == [exc |-> "", line |-> 0, msg |-> {}]
Raise(exc, line, msg) == [exc |-> exc, line |-> line, msg |-> msg]

(***************************************************************************)
(* Acquisition catalog (lines 68-75, 90-93).                               *)
(***************************************************************************)
CoordinateNames == {"X", "Y", "Z"}

\* The filter of the list comprehension at lines 73-74.
IsChannelOf(ch, id_) ==
    ch["AcquisitionID"] = id_ /\ ch["ChannelName"] \notin CoordinateNames

RECURSIVE Filter(_, _)
Filter(chs, id_) ==
    IF chs = <<>> THEN <<>>
    ELSE IF IsChannelOf(Head(chs), id_)
         THEN <<Head(chs)>> \o Filter(Tail(chs), id_)
         ELSE Filter(Tail(chs), id_)

\* Text order on digit strings: what sorting without int() would compare.
RECURSIVE TextLess(_, _)
TextLess(s, t) ==
    IF t = <<>> THEN FALSE
    ELSE IF s = <<>> THEN TRUE
    ELSE IF Head(s) # Head(t) THEN Head(s) < Head(t)
    ELSE TextLess(Tail(s), Tail(t))

KeyLessAsText(a, b) == TextLess(a["OrderNumber"], b["OrderNumber"])

\* key=lambda c: int(c["OrderNumber"]) (line 75).
KeyLess(a, b) == ParseInt(a["OrderNumber"]) < ParseInt(b["OrderNumber"])

\* sorted() is stable: an element goes after every element not greater.
RECURSIVE Insert(_, _)
Insert(s, c) ==
    IF s = <<>> THEN <<c>>
    ELSE IF KeyLess(c, Head(s)) THEN <<c>> \o s
    ELSE <<Head(s)>> \o Insert(Tail(s), c)

RECURSIVE Sorted(_)
Sorted(chs) ==
    IF chs = <<>> THEN <<>>
    ELSE Insert(Sorted(SubSeq(chs, 1, Len(chs) - 1)), chs[Len(chs)])

Channels(root, id_) == Sorted(Filter(root["AcquisitionChannel"], id_))

\* f"{name}_{label}" if the label is present, else the name (lines 90-93).
ChannelDisplay(c) ==
    IF c["ChannelLabel"] # None
    THEN <<c["ChannelName"], "_", c["ChannelLabel"][1]>>
    ELSE <<c["ChannelName"]>>

ChannelNames(chs) == [i \in DOMAIN chs |-> ChannelDisplay(chs[i])]

(***************************************************************************)
(* Raw record decoder (lines 80-85).                                       *)
(***************************************************************************)
\* The list comprehension of line 83: one float per 4-byte chunk.
Floats(raw) ==
    [i \in 1..(Len(raw) \div 4) |-> Unpack(SubSeq(raw, 4 * i - 3, 4 * i))]

\* struct.unpack raises struct.error on the short last chunk.
UnpackRaises(raw) == Len(raw) % 4 # 0

\* A reshape that drops the floats of an incomplete last row.
ReshapeRowsTruncates(fl, w) == FALSE

\* ndarray.reshape((-1, w)) raises ValueError unless w divides the size.
ReshapeRowsRaises(fl, w) == Len(fl) % w # 0

ReshapeRows(fl, w) ==
    [r \in 1..(Len(fl) \div w) |-> SubSeq(fl, (r - 1) * w + 1, r * w)]

(***************************************************************************)
(* _is_missing_values (lines 32-41).                                       *)
(***************************************************************************)
Column(a, j) == [i \in DOMAIN a |-> a[i][j]]

HasNaN(a) == \E i \in DOMAIN a : \E j \in DOMAIN a[i] : IsNaN(a[i][j])

\* max() of a zero-size array raises ValueError (line 40).
MaxRaises(a) == a = <<>>

\* The row count test alone, without np.isnan.
_is_missing_values_count_only(a) ==
    FNe(Len(a), FMul(FAdd(MaxOf(Column(a, 1)), 1),
                     FAdd(MaxOf(Column(a, 2)), 1)))

_is_missing_values(a) ==
    LET nexpected == FMul(FAdd(MaxOf(Column(a, 1)), 1),
                          FAdd(MaxOf(Column(a, 2)), 1))
    IN  FNe(Len(a), nexpected) \/ HasNaN(a)

(***************************************************************************)
(* _xyzc_to_arr (lines 14-29).  NaN coordinates never reach it: without a  *)
(* fill value _is_missing_values rejects them first, and the containers    *)
(* of Init carry none when a fill value is given (the cast of NaN to int   *)
(* at line 24 is platform-defined).                                        *)
(***************************************************************************)
NoImg == [shape |-> <<0, 0, 0>>, data |-> <<>>]

\* np.ones((n, w)) * fill (line 28).
FillRows(n, w, v) == [i \in 1..n |-> [j \in 1..w |-> v]]

\* arr[:, 3:].reshape((ysz, xsz, csz)) (line 29): rows in input order.
ReshapeImage(a, ysz, xsz, csz) ==
    [shape |-> <<ysz, xsz, csz>>,
     data |-> Concat([i \in DOMAIN a |-> SubSeq(a[i], 4, 3 + csz)])]

\* The result is [raises, img]: raises is 0, or the line where numpy raises
\* ValueError (24: max of no rows, 28: negative dimension, 29: size mismatch).
_xyzc_to_arr(a, fill) ==
    IF a = <<>> THEN [raises |-> 24, img |-> NoImg]
    ELSE
    LET xsz == MaxOf(Column(a, 1)) + 1
        ysz == MaxOf(Column(a, 2)) + 1
        csz == Len(a[1]) - 3
        pad == xsz * ysz # Len(a) /\ fill # None
        padded == IF pad /\ xsz * ysz >= Len(a)
                  THEN a \o FillRows(xsz * ysz - Len(a), 3 + csz, fill[1])
                  ELSE a
    IN  IF pad /\ xsz * ysz < Len(a) THEN [raises |-> 28, img |-> NoImg]
        ELSE IF Len(padded) * csz # ysz * xsz * csz
             THEN [raises |-> 29, img |-> NoImg]
        ELSE [raises |-> 0, img |-> ReshapeImage(padded, ysz, xsz, csz)]

\* img[y, x, :] of a raster.
Cell(img, y, x) ==
    SubSeq(img.data, (y * img.shape[2] + x) * img.shape[3] + 1,
                     (y * img.shape[2] + x + 1) * img.shape[3])

(***************************************************************************)
(* One iteration of the loop over the acquisitions (lines 69-99): what     *)
(* the k-th pull does between resuming and the next yield or raise.        *)
(***************************************************************************)
NoDA == [name |-> <<>>, img |-> NoImg, c |-> <<>>, attrs |-> <<>>]

\* decoded tells whether the assignment to arr (lines 82-85) took place.
Raised(e, rd, decoded, a) ==
    [kind |-> "raise", da |-> NoDA, err |-> e, rd |-> rd,
     decoded |-> decoded, arr |-> a]

\* The acquisitions taken in another order than the document's.
AcquisitionsReversed(root) ==
    LET acqs == root["Acquisition"]
    IN  [i \in DOMAIN acqs |-> acqs[Len(acqs) + 1 - i]]

\* acquisitions = root["Acquisition"] (line 68): the document's order.
Acquisitions(root) == root["Acquisition"]

Step(p, buf, root, fill, k) ==
    LET acq == Acquisitions(root)[k]
        id_ == acq["ID"]
        channels == Channels(root, id_)
        w == Len(channels) + 3
        start == ParseInt(acq["DataStartOffset"])
        n == ParseInt(acq["DataEndOffset"]) - start
        raw == MmRead(buf, start, n)
        rd == <<k, start, n>>
        fl == Floats(raw)
        a == ReshapeRows(fl, w)
        res == _xyzc_to_arr(a, fill)
    IN  IF acq["SegmentDataFormat"] # "Float" \/ acq["ValueBytes"] # "4"
        THEN Raised(Raise("NotImplementedError", 79, {}), <<>>, FALSE, <<>>)
        ELSE IF UnpackRaises(raw)
        THEN Raised(Raise("struct.error", 83, {}), <<rd>>, FALSE, <<>>)
        ELSE IF ReshapeRowsRaises(fl, w)
        THEN Raised(Raise("ValueError", 85, {}), <<rd>>, FALSE, <<>>)
        ELSE IF fill = None /\ MaxRaises(a)
        THEN Raised(Raise("ValueError", 40, {}), <<rd>>, TRUE, a)
        ELSE IF fill = None /\ _is_missing_values(a)
        THEN Raised(Raise("ValueError", 87, {}), <<rd>>, TRUE, a)
        ELSE IF res.raises # 0
        THEN Raised(Raise("ValueError", res.raises, {}), <<rd>>, TRUE, a)
        ELSE [kind |-> "yield",
              da |-> [name |-> <<p, id_>>, img |-> res.img,
                      c |-> ChannelNames(channels), attrs |-> acq],
              err |-> NoErr, rd |-> <<rd>>, decoded |-> TRUE, arr |-> a]

(***************************************************************************)
(* The footer (lines 59-67).  xmltodict.parse is modelled by its result on *)
(* the container's own document: the text decodes and parses to doc.root   *)
(* exactly when it is the document's text, from its root element to the    *)
(* end of the file.                                                        *)
(***************************************************************************)
FooterOffset(buf, enc) == RFind(buf, Encode(MarkerText, enc))

XmlText(buf, off) == MmRead(buf, off, Len(buf) - off)

ParseFails(d, text) == text # d.text

(***************************************************************************)
(* The generator.                                                          *)
(***************************************************************************)
Terminal == {"done", "raised", "closed"}

\* An exception leaves the with block: fh is closed, mm.close() is skipped.
Fail(e) ==
    /\ pc' = "raised"
    /\ err' = e
    /\ fh' = "closed"
    /\ mm' = "open"
    /\ UNCHANGED yielded

RunBody(k) ==
    LET out == Step(path, file, doc.root, fill_missing, k)
    IN  /\ reads' = reads \o out.rd
        /\ arr' = IF out.decoded THEN out.arr ELSE arr
        /\ IF out.kind = "yield"
           THEN /\ yielded' = Append(yielded, out.da)
                /\ pc' = "suspended"
                /\ fh' = "open"
                /\ mm' = "open"
                /\ err' = NoErr
           ELSE Fail(out.err)

\* The first next(): open, map, locate and parse the footer, then run the
\* loop up to the first yield.
Start ==
    /\ pc = "created"
    /\ pulls' = pulls + 1
    /\ offset' = FooterOffset(file, encoding)
    /\ IF offset' = -1
       THEN /\ Fail(Raise("ValueError", 61, {path}))
            /\ UNCHANGED <<reads, arr>>
       ELSE IF ParseFails(doc, XmlText(file, offset'))
       THEN /\ Fail(Raise("ExpatError", 66, {}))
            /\ UNCHANGED <<reads, arr>>
       ELSE RunBody(1)
    /\ UNCHANGED <<path, fill_missing, encoding, file, doc>>

\* A later next(): the loop goes on to the next acquisition, or ends, runs
\* mm.close() (line 100) and leaves the with block.
Resume ==
    /\ pc = "suspended"
    /\ pulls' = pulls + 1
    /\ IF Len(yielded) + 1 > Len(Acquisitions(doc.root))
       THEN /\ pc' = "done"
            /\ mm' = "closed"
            /\ fh' = "closed"
            /\ UNCHANGED <<yielded, err, reads, arr>>
       ELSE RunBody(Len(yielded) + 1)
    /\ UNCHANGED <<path, fill_missing, encoding, file, doc, offset>>

\* The caller closes or drops the generator: GeneratorExit is raised at the
\* yield and leaves the with block; a generator never started just ends.
Close ==
    /\ pc \in {"created", "suspended"}
    /\ pc' = "closed"
    /\ fh' = IF pc = "suspended" THEN "closed" ELSE fh
    /\ UNCHANGED <<path, fill_missing, encoding, file, doc, mm, offset,
                   yielded, err, reads, arr, pulls>>

\* The mmap object is finalized some time after the frame is gone.
Collect ==
    /\ pc \in Terminal
    /\ mm = "open"
    /\ mm' = "closed"
    /\ UNCHANGED <<path, fill_missing, encoding, file, doc, pc, fh, offset,
                   yielded, err, reads, arr, pulls>>

Next == Start \/ Resume \/ Close \/ Collect

(***************************************************************************)
(* Containers.  A container is the acquisitions' float32 rows              *)
(* [x, y, z, c1..cN] back to back, then the XML footer; the footer's       *)
(* acquisition records give each data range, its channel records the       *)
(* columns (lines 68-85).  A case describes one acquisition:               *)
(*   coords  the (x, y) of its rows, in file order                         *)
(*   nan     <<row, field>> holding NaN, <<0, 0>> for none                 *)
(*   dup     the last row is stored twice                                  *)
(*   extra   bytes by which DataEndOffset exceeds the end of the rows      *)
(***************************************************************************)
ZValue == 7

\* The value of channel column j at (x, y): distinct per cell and column.
Val(x, y, j) == 10 * j + (MaxX + 1) * y + x + 1

Row(x, y, N) == <<x, y, ZValue>> \o [j \in 1..N |-> Val(x, y, j)]

CaseRows(case, N) ==
    LET base == [i \in DOMAIN case.coords |->
                    Row(case.coords[i][1], case.coords[i][2], N)]
        all == IF case.dup THEN Append(base, base[Len(base)]) ELSE base
    IN  [i \in DOMAIN all |->
            [j \in DOMAIN all[i] |->
                IF case.nan = <<i, j>> THEN NaN ELSE all[i][j]]]

PackRows(rows) ==
    Concat([i \in DOMAIN rows |->
                Concat([j \in DOMAIN rows[i] |-> Pack(rows[i][j])])])

ChannelRec(id_, name, label, order) ==
    [AcquisitionID |-> id_, ChannelName |-> name, ChannelLabel |-> label,
     OrderNumber |-> Digits(order)]

CoordRecs(id_) ==
    << ChannelRec(id_, "X", None, 0), ChannelRec(id_, "Y", None, 1),
       ChannelRec(id_, "Z", None, 2) >>

StdChannels(id_) ==
    CoordRecs(id_) \o << ChannelRec(id_, "A", <<"CD4">>, 3),
                         ChannelRec(id_, "B", None, 4) >>

\* Number of data columns the writer stores for an acquisition.
NChannels(table, id_) ==
    Cardinality({i \in DOMAIN table :
                    /\ table[i]["AcquisitionID"] = id_
                    /\ table[i]["ChannelName"] \notin {"X", "Y", "Z"}})

CaseBytes(case, table) == PackRows(CaseRows(case, NChannels(table, case.ID)))

RECURSIVE DataBytes(_, _)
DataBytes(cases, table) ==
    IF cases = <<>> THEN <<>>
    ELSE CaseBytes(Head(cases), table) \o DataBytes(Tail(cases), table)

\* The text after the root element's opening marker: ">".
XmlRest == <<62>>

Prefix(sc) ==
    IF sc.decoy = "none" THEN <<>> ELSE Encode(MarkerText, sc.decoy)

FooterBytes(sc) ==
    IF sc.footer THEN Encode(MarkerText \o XmlRest, sc.fenc) ELSE <<>>

FileOf(sc) == Prefix(sc) \o DataBytes(sc.cases, sc.table) \o FooterBytes(sc)

AcqRecord(sc, k) ==
    LET case == sc.cases[k]
        start == Len(Prefix(sc))
                   + Len(DataBytes(SubSeq(sc.cases, 1, k - 1), sc.table))
    IN  [ID |-> case.ID,
         DataStartOffset |-> Digits(start),
         DataEndOffset |->
             Digits(start + Len(CaseBytes(case, sc.table)) + case.extra),
         SegmentDataFormat |-> case.fmt,
         ValueBytes |-> case.vb]

DocOf(sc) ==
    [text |-> FooterBytes(sc),
     root |-> [Acquisition |-> [k \in DOMAIN sc.cases |-> AcqRecord(sc, k)],
               AcquisitionChannel |-> sc.table]]

(***************************************************************************)
(* The containers and arguments of Init.                                   *)
(***************************************************************************)
RECURSIVE DistinctSeqs(_, _)
DistinctSeqs(S, n) ==
    IF n = 0 THEN {<<>>}
    ELSE LET P == DistinctSeqs(S, n - 1)
         IN  P \cup {Append(q[1], q[2]) :
                        q \in {r \in P \X S :
                                 Len(r[1]) = n - 1 /\ r[2] \notin Range(r[1])}}

Perms(S) == {q \in DistinctSeqs(S, Cardinality(S)) : Len(q) = Cardinality(S)}

Coords == (0..MaxX) \X (0..MaxY)

\* The complete grid of width w and height h in row-major (y, x) order.
GridCoords(w, h) == [i \in 1..(w * h) |-> <<(i - 1) % w, (i - 1) \div w>>]

Case(id_, coords) ==
    [ID |-> id_, coords |-> coords, nan |-> <<0, 0>>, dup |-> FALSE,
     fmt |-> "Float", vb |-> "4", extra |-> 0]

Scenario(cases, table, fill) ==
    [path |-> "roi.mcd", fill |-> fill, enc |-> "utf-16-le",
     fenc |-> "utf-16-le", decoy |-> "none", footer |-> TRUE,
     cases |-> cases, table |-> table]

Fills == {None, <<-1>>}

\* The complete grids, each in row-major order.
Grids ==
    {GridCoords(w, h) : w \in 1..(MaxX + 1), h \in 1..(MaxY + 1)}

\* One acquisition whose rows are any sequence of at most MaxRows distinct
\* coordinates, or a complete grid of at most MaxCells cells in any order.
RowOrderScenarios ==
    {Scenario(<<Case("1", cs)>>, StdChannels("1"), f) :
        cs \in DistinctSeqs(Coords, MaxRows)
                 \cup UNION {Perms(Range(g)) :
                                g \in {q \in Grids : Len(q) <= MaxCells}},
        f \in Fills}

\* Complete grids with one NaN field (in a coordinate only when no fill
\* value is given), or with the last row stored twice.
DamagedScenarios ==
    UNION {{Scenario(<<[Case("1", g) EXCEPT !.nan = <<r, f>>]>>,
                     StdChannels("1"), None) :
                r \in DOMAIN g, f \in 1..5} : g \in Grids}
    \cup
    UNION {{Scenario(<<[Case("1", g) EXCEPT !.nan = <<r, f>>]>>,
                     StdChannels("1"), <<-1>>) :
                r \in DOMAIN g, f \in 3..5} : g \in Grids}
    \cup
    {Scenario(<<[Case("1", g) EXCEPT !.dup = TRUE]>>,
              StdChannels("1"), fl) : g \in Grids, fl \in Fills}

\* Two acquisitions whose channel records appear in any order.
CatalogScenarios ==
    LET Chans == { ChannelRec("2", "Xe", <<"131">>, 10),
                   ChannelRec("2", "A", <<"CD4">>, 3),
                   ChannelRec("2", "B", None, 4),
                   ChannelRec("1", "C", None, 3) }
        Block == CoordRecs("2") \o CoordRecs("1")
    IN  {Scenario(<<Case("2", <<<<0, 0>>>>), Case("1", <<<<0, 0>>>>)>>,
                  SubSeq(q, 1, at) \o Block \o SubSeq(q, at + 1, Len(q)),
                  None) :
            q \in Perms(Chans), at \in 0..Cardinality(Chans)}

\* Several acquisitions, each sound or defective in one way.
MaxAcq == 2
AcqIds == <<"2", "1", "3", "0">>
Kinds == {"good", "int", "wide", "odd", "unaligned", "gap"}

KindCase(id_, kind) ==
    [ID |-> id_,
     coords |-> IF kind = "gap" THEN <<<<1, 0>>>> ELSE <<<<0, 0>>, <<1, 0>>>>,
     nan |-> <<0, 0>>, dup |-> FALSE,
     fmt |-> IF kind = "int" THEN "Integer" ELSE "Float",
     vb |-> IF kind = "wide" THEN "8" ELSE "4",
     extra |-> IF kind = "odd" THEN 2 ELSE IF kind = "unaligned" THEN 4 ELSE 0]

KindSeqs == UNION {[1..n -> Kinds] : n \in 1..MaxAcq}

FormatScenarios ==
    {Scenario([k \in DOMAIN ks |-> KindCase(AcqIds[k], ks[k])],
              Concat([k \in DOMAIN ks |-> StdChannels(AcqIds[k])]), f) :
        ks \in KindSeqs, f \in Fills}

\* Footer present or absent, in either encoding, with or without a decoy.
Encodings == {"utf-16-le", "utf-8"}

FooterScenarios ==
    {[Scenario(<<Case("1", GridCoords(2, 1))>>, StdChannels("1"), None)
        EXCEPT !.path = p, !.enc = e, !.fenc = fe, !.decoy = d,
               !.footer = ft] :
        p \in {"roi.mcd", "b/roi.mcd"}, e \in Encodings, fe \in Encodings,
        d \in Encodings \cup {"none"}, ft \in BOOLEAN}

Scenarios ==
    RowOrderScenarios \cup DamagedScenarios \cup CatalogScenarios
        \cup FormatScenarios \cup FooterScenarios

Init ==
    \E sc \in Scenarios :
        /\ path = sc.path
        /\ fill_missing = sc.fill
        /\ encoding = sc.enc
        /\ file = FileOf(sc)
        /\ doc = DocOf(sc)
        /\ pc = "created"
        /\ fh = "none"
        /\ mm = "none"
        /\ offset = -1
        /\ yielded = <<>>
        /\ err = NoErr
        /\ reads = <<>>
        /\ arr = <<>>
        /\ pulls = 0

Spec == Init /\ [][Next]_vars

(***************************************************************************)
(* Vocabulary of the properties.                                           *)
(***************************************************************************)
Acqs == doc.root["Acquisition"]
Table == doc.root["AcquisitionChannel"]

\* The channel records of acquisition k that are not coordinates.
Selected(k) ==
    {j \in DOMAIN Table :
        /\ Table[j]["AcquisitionID"] = Acqs[k]["ID"]
        /\ Table[j]["ChannelName"] # "X"
        /\ Table[j]["ChannelName"] # "Y"
        /\ Table[j]["ChannelName"] # "Z"}

RecordWidth(k) == Cardinality(Selected(k)) + 3
RangeStart(k) == ParseInt(Acqs[k]["DataStartOffset"])
RangeLen(k) == ParseInt(Acqs[k]["DataEndOffset"]) - RangeStart(k)
Unsupported(k) ==
    Acqs[k]["SegmentDataFormat"] # "Float" \/ Acqs[k]["ValueBytes"] # "4"

\* The acquisition whose data range was read last, and whether its range
\* is a whole number of records.
LastRead == reads[Len(reads)][1]
WholeRecords(k) == RangeLen(k) % (4 * RecordWidth(k)) = 0

\* The error came from the loop body, for acquisition Len(yielded) + 1.
BodyError == pc = "raised" /\ err.line \notin {61, 66}

\* The spec's error kinds, by the statement that raises them.
FormatErrorNoFooter == err.exc = "ValueError" /\ err.line = 61
FormatErrorStride == err.line \in {83, 85}
UnsupportedFormatError == err.exc = "NotImplementedError" /\ err.line = 79
IncompleteDataError == err.exc = "ValueError" /\ err.line = 87

\* A row set as the spec's missing-data check sees it.
GridWidth(a) == MaxOfSet({a[i][1] : i \in DOMAIN a}) + 1
GridHeight(a) == MaxOfSet({a[i][2] : i \in DOMAIN a}) + 1
NoNaN(a) == \A i \in DOMAIN a : \A j \in DOMAIN a[i] : a[i][j] # NaN
Incomplete(a) == ~NoNaN(a) \/ Len(a) # GridWidth(a) * GridHeight(a)
DistinctCoords(a) ==
    \A i, j \in DOMAIN a : i # j => <<a[i][1], a[i][2]>> # <<a[j][1], a[j][2]>>
\* Exactly one row per (x, y) of the grid, no NaN.
ValidComplete(a) ==
    /\ a # <<>>
    /\ NoNaN(a)
    /\ DistinctCoords(a)
    /\ Len(a) = GridWidth(a) * GridHeight(a)

\* arr holds the rows of the raster yielded last.
YieldedLast ==
    /\ reads # <<>>
    /\ Len(yielded) = LastRead
    /\ pc \in {"suspended", "closed", "done"}
LastImg == yielded[Len(yielded)].img

Swap(a, i, j) ==
    [n \in DOMAIN a |-> IF n = i THEN a[j] ELSE IF n = j THEN a[i] ELSE a[n]]

(***************************************************************************)
(* C1.  Row-order invariance: for a valid complete row set (one row per    *)
(* (x, y) of the grid, no NaN), reshaping the rows in any other order      *)
(* gives the same raster, cell for cell.  Every permutation is a product   *)
(* of exchanges of two rows, so the property is stated for exchanges.      *)
(***************************************************************************)
C1_RowOrderInvariance ==
    YieldedLast /\ ValidComplete(arr) =>
        \A i, j \in DOMAIN arr :
            _xyzc_to_arr(Swap(arr, i, j), fill_missing).img = LastImg

(***************************************************************************)
(* C8.  Raster placement and shape: for a complete row set with N          *)
(* channels the raster has shape (maxY+1, maxX+1, N) and the cell at row   *)
(* index y, column index x holds the channel values of the input row       *)
(* (x, y, z, c1..cN); the rows are those packed into the container, so     *)
(* the decoded and reshaped grid is the grid that was encoded.             *)
(***************************************************************************)
C8_PlacementAndShape ==
    YieldedLast /\ ValidComplete(arr) =>
        /\ LastImg.shape =
              <<GridHeight(arr), GridWidth(arr), Len(arr[1]) - 3>>
        /\ \A i \in DOMAIN arr :
              Cell(LastImg, arr[i][2], arr[i][1]) =
                  SubSeq(arr[i], 4, Len(arr[i]))

(***************************************************************************)
(* C3.  Fill of missing rows: with a fill value and fewer rows than        *)
(* width*height (distinct coordinates, no NaN), reshaping succeeds, the    *)
(* raster has width*height cells and every cell whose coordinate has no    *)
(* row holds the fill value in every channel.                              *)
(***************************************************************************)
C3_Reshapable ==
    /\ fill_missing # None
    /\ arr # <<>>
    /\ NoNaN(arr)
    /\ DistinctCoords(arr)
    /\ Len(arr) < GridWidth(arr) * GridHeight(arr)

C3_FillOfMissingRows ==
    /\ reads # <<>> /\ WholeRecords(LastRead) /\ C3_Reshapable
         => Len(yielded) >= LastRead
    /\ YieldedLast /\ C3_Reshapable =>
         /\ LastImg.shape[1] * LastImg.shape[2]
               = GridWidth(arr) * GridHeight(arr)
         /\ \A x \in 0..(GridWidth(arr) - 1), y \in 0..(GridHeight(arr) - 1) :
               (\A i \in DOMAIN arr : <<arr[i][1], arr[i][2]>> # <<x, y>>)
                   => \A v \in Range(Cell(LastImg, y, x)) :
                          v = fill_missing[1]

(***************************************************************************)
(* C4.  Deterministic release: however the traversal ends (exhausted,      *)
(* closed or dropped by the caller, or an error), the memory map and the   *)
(* file handle are both released at that point.                            *)
(***************************************************************************)
C4_ReleasedAtEnd == pc \in Terminal => mm # "open" /\ fh # "open"

(***************************************************************************)
(* C6.  Unsupported encoding: an acquisition declaring a value width       *)
(* other than 4 or an encoding other than float makes its pull raise       *)
(* UnsupportedFormatError naming the acquisition's id, before any byte of  *)
(* its data range is read.                                                 *)
(***************************************************************************)
C6_UnsupportedRejected ==
    BodyError /\ Unsupported(Len(yielded) + 1) =>
        /\ UnsupportedFormatError
        /\ Acqs[Len(yielded) + 1]["ID"] \in err.msg
        /\ \A i \in DOMAIN reads : reads[i][1] # Len(yielded) + 1

(***************************************************************************)
(* C2.  Missing without fill fails closed: with no fill value, an          *)
(* acquisition whose decoded rows are incomplete (row count differs from   *)
(* (maxX+1)*(maxY+1), or some field is NaN) raises IncompleteDataError     *)
(* and yields no raster; a raster is yielded without a fill value only     *)
(* for a complete row set.                                                 *)
(***************************************************************************)
C2_MissingWithoutFillFailsClosed ==
    fill_missing = None /\ reads # <<>> /\ WholeRecords(LastRead)
                        /\ arr # <<>> =>
        /\ Incomplete(arr) =>
              /\ pc = "raised"
              /\ IncompleteDataError
              /\ Len(yielded) = LastRead - 1
        /\ Len(yielded) >= LastRead => ~Incomplete(arr)

\* A complete count of rows, one of them holding NaN, is rejected.
C2_Witness ==
    /\ fill_missing = None
    /\ pc = "raised" /\ IncompleteDataError
    /\ Len(arr) = 4 /\ ~NoNaN(arr)
    /\ yielded = <<>>

(***************************************************************************)
(* C5.  Emitted channel sequence: the channel labels of every yielded      *)
(* raster are the display names of exactly the channel records of that     *)
(* acquisition whose name is not "X", "Y" or "Z", by ascending             *)
(* OrderNumber compared as integers, whatever the order of the records in  *)
(* the document.                                                           *)
(***************************************************************************)
C5_Rank(k, j) ==
    1 + Cardinality({m \in Selected(k) :
            ParseInt(Table[m]["OrderNumber"]) < ParseInt(Table[j]["OrderNumber"])})

C5_EmittedChannels ==
    \A k \in DOMAIN yielded :
        /\ Len(yielded[k].c) = Cardinality(Selected(k))
        /\ \A j \in Selected(k) :
              yielded[k].c[C5_Rank(k, j)] = ChannelDisplay(Table[j])

\* Order numbers 10, 4, 3 in that document order come out as 3, 4, 10.
C5_Witness ==
    /\ Len(yielded) = 2
    /\ yielded[1].c = <<<<"A", "_", "CD4">>, <<"B">>, <<"Xe", "_", "131">>>>
    /\ yielded[2].c = <<<<"C">>>>
    /\ \E a, b, c \in DOMAIN Table :
          /\ a < b /\ b < c
          /\ Table[a]["ChannelName"] = "Xe"
          /\ Table[b]["ChannelName"] = "B"
          /\ Table[c]["ChannelName"] = "A"
    /\ Table[1]["ChannelName"] = "C"

(***************************************************************************)
(* C7.  Footer location: once the generator has been started, the read     *)
(* has failed with FormatError naming the path, with no raster yielded,    *)
(* exactly when the marker's bytes under the given encoding occur nowhere  *)
(* in the container; otherwise the offset used is that of the last         *)
(* occurrence, never an earlier one, and the document is taken from there  *)
(* through the end of the file.                                            *)
(***************************************************************************)
C7_Occurrences ==
    LET marker == Encode(MarkerText, encoding)
    IN  {i \in 0..(Len(file) - Len(marker)) :
            \A n \in DOMAIN marker : file[i + n] = marker[n]}

C7_FooterLocation ==
    pulls > 0 =>
        /\ (pc = "raised" /\ FormatErrorNoFooter /\ path \in err.msg)
              <=> C7_Occurrences = {}
        /\ C7_Occurrences = {} => yielded = <<>> /\ reads = <<>>
        /\ C7_Occurrences # {} =>
              /\ offset \in C7_Occurrences
              /\ \A i \in C7_Occurrences : i <= offset
              /\ (\A n \in 1..(Len(file) - offset) :
                      n <= Len(doc.text) /\ file[offset + n] = doc.text[n])
                  /\ Len(doc.text) = Len(file) - offset
                  => ~(pc = "raised" /\ err.line = 66)

\* A decoy marker precedes the data; the footer after it is the one used.
C7_Witness ==
    /\ Cardinality(C7_Occurrences) = 2
    /\ offset > 0
    /\ Len(yielded) = 1

(***************************************************************************)
(* C9.  Lazy in-order iteration: one raster per acquisition record, in     *)
(* the document's order; the k-th acquisition's bytes are read and its     *)
(* errors raised only on the k-th pull, so every earlier raster has been   *)
(* yielded when an error surfaces; no raster is yielded after an error.    *)
(***************************************************************************)
C9_InOrder ==
    /\ \A k \in DOMAIN yielded :
          /\ yielded[k].attrs = Acqs[k]
          /\ yielded[k].name = <<path, Acqs[k]["ID"]>>
    /\ Len(yielded) <= Len(Acqs)
    /\ \A i \in DOMAIN reads : reads[i][1] <= pulls
    /\ \A i, j \in DOMAIN reads : i < j => reads[i][1] < reads[j][1]
    /\ pc = "suspended" => Len(yielded) = pulls
    /\ BodyError => Len(yielded) = pulls - 1
    /\ pc = "done" => Len(yielded) = Len(Acqs) /\ pulls = Len(Acqs) + 1

C9_NothingAfterError == pc = "raised" => pc' = "raised" /\ yielded' = yielded

C9_LazyInOrder == []C9_InOrder /\ [][C9_NothingAfterError]_vars

\* The second acquisition fails after the first one's raster was yielded.
C9_Witness ==
    /\ BodyError
    /\ Len(yielded) = 1
    /\ pulls = 2
    /\ Len(Acqs) = 2

(***************************************************************************)
(* C10.  Decoder stride check: for record width N+3 and byte range         *)
(* [start, end), decoding fails with FormatError whenever end - start is   *)
(* not a multiple of 4*(N+3); otherwise it produces exactly                *)
(* (end - start) / (4*(N+3)) rows of N+3 values, read from exactly the     *)
(* bytes of [start, end).                                                  *)
(***************************************************************************)
C10_FloatAt(k, r, c) ==
    LET at == RangeStart(k) + 4 * ((r - 1) * RecordWidth(k) + (c - 1))
    IN  Unpack(<<file[at + 1], file[at + 2], file[at + 3], file[at + 4]>>)

====
